---------------------------- MODULE Spec2Model ----------------------------
(***************************************************************************)
(* Trust lines of stellar-core: src/ledger/TrustFrame.cpp.                 *)
(*                                                                         *)
(* A TrustFrame is the in-memory working copy of one trust line; the       *)
(* TrustLines table is the durable copy; the LedgerDelta is the change     *)
(* journal that is told of every row added, modified or deleted.           *)
(*                                                                         *)
(* Scaling.  int64_t is modelled as a two's complement integer of IntBits  *)
(* bits and the 32-bit flags word as an unsigned integer of FlagBits bits  *)
(* (TLC's own integers are 32 bits wide), so INT64_MAX is 2^(IntBits-1)-1. *)
(* All arithmetic of the code is done at that width.                       *)
(***************************************************************************)
EXTENDS Integers, Sequences, FiniteSets, TLC

VARIABLES
    frame,      \* the TrustFrame the caller works on (*this, retLine)
    table,      \* the rows of the SQL table TrustLines
    journal,    \* the LedgerDelta: per ledger key, what it was last told
    last        \* the last call made: its arguments, result and effects

vars == << frame, table, journal, last >>

---------------------------------------------------------------------------
(* Bounds and program constants *)

IntBits == 3

FlagBits == 2

AUTHORIZED_FLAG == 1

INT64_MAX == 2^(IntBits - 1) - 1

INT64_MIN == -(2^(IntBits - 1))

Int64 == INT64_MIN..INT64_MAX

UInt32 == 0..(2^FlagBits - 1)

Accounts == {"A", "B"}

Codes == {"USD"}

---------------------------------------------------------------------------
(* Machine arithmetic *)

InInt64(x) == INT64_MIN <= x /\ x <= INT64_MAX

\* the value an int64_t register holds after an addition or subtraction
Wrap64(x) == ((x - INT64_MIN) % (2^IntBits)) + INT64_MIN

\* Signed overflow is undefined behaviour.  A build evaluates the expression
\* either with the wrapping machine instruction ("wrap") or under the
\* optimiser's assumption that no overflow happens, i.e. on the mathematical
\* value ("nsw").  The two agree whenever the result is representable.
OverflowModes == {"wrap", "nsw"}

SignedSum(a, b, mode) == IF mode = "wrap" THEN Wrap64(a + b) ELSE a + b

\* (flags & bit) != 0 for a single-bit mask
TestBit(flags, bit) == ((flags \div bit) % 2) = 1

\* flags | bit
OrBit(flags, bit) == IF TestBit(flags, bit) THEN flags ELSE flags + bit

\* flags & ~bit
ClearBit(flags, bit) == IF TestBit(flags, bit) THEN flags - bit ELSE flags

\* (int)flags : unsigned to signed of the same width
ToInt(u) == IF u >= 2^(FlagBits - 1) THEN u - 2^FlagBits ELSE u

\* into(tl.flags) : the signed column value stored back in the unsigned field
ToUInt(i) == i % (2^FlagBits)

---------------------------------------------------------------------------
(* Currencies, ledger entries, keys *)

NativeCurrency == [type |-> "NATIVE", code |-> "", issuer |-> ""]

AlphaNum(code, issuer) == [type |-> "ALPHANUM", code |-> code, issuer |-> issuer]

AlphaNumCurrencies == {AlphaNum(c, i) : c \in Codes, i \in Accounts}

Currencies == {NativeCurrency} \cup AlphaNumCurrencies

\* TrustLineEntry (mTrustLine)
TrustLineEntries ==
    [accountID : Accounts, currency : Currencies,
     limit : Int64, balance : Int64, flags : UInt32]

\* LedgerKey of a trust line
LedgerKeys == [accountID : Accounts, currency : AlphaNumCurrencies]

KeyOf(tl) == [accountID |-> tl.accountID, currency |-> tl.currency]

---------------------------------------------------------------------------
(* TrustFrame: the entity *)

\* TrustFrame::TrustFrame(LedgerEntry const& from)
TrustFrame(from) ==
    [accountID |-> from.accountID, currency |-> from.currency,
     limit |-> from.limit, balance |-> from.balance, flags |-> from.flags,
     mIsIssuer |-> FALSE]

\* TrustFrame::TrustFrame(TrustFrame const& from) : delegates to the
\* constructor from from.mEntry, which sets mIsIssuer to false
TrustFrameCopy(from) == TrustFrame(from)

\* TrustFrame::TrustFrame() : a default LedgerEntry of type TRUSTLINE
DefaultFrame ==
    [accountID |-> "A", currency |-> NativeCurrency,
     limit |-> 0, balance |-> 0, flags |-> 0, mIsIssuer |-> FALSE]

isAuthorized(f) == TestBit(f.flags, AUTHORIZED_FLAG)

setAuthorized(f, authorized) ==
    IF authorized
    THEN [f EXCEPT !.flags = OrBit(f.flags, AUTHORIZED_FLAG)]
    ELSE [f EXCEPT !.flags = ClearBit(f.flags, AUTHORIZED_FLAG)]

isValid(f) ==
    /\ f.currency.type # "NATIVE"
    /\ f.balance >= 0
    /\ f.balance <= f.limit

\* the result of addBalance: the value returned and the frame afterwards
addBalance_NoNegativeCheck(f, delta, mode) ==
    LET sum == SignedSum(delta, f.balance, mode) IN
    IF f.mIsIssuer THEN [ret |-> TRUE, frame |-> f]
    ELSE IF delta = 0 THEN [ret |-> TRUE, frame |-> f]
    ELSE IF ~isAuthorized(f) THEN [ret |-> FALSE, frame |-> f]
    ELSE IF f.limit < sum THEN [ret |-> FALSE, frame |-> f]
    ELSE [ret |-> TRUE, frame |-> [f EXCEPT !.balance = Wrap64(f.balance + delta)]]

addBalance_NoLimitCheck(f, delta, mode) ==
    LET sum == SignedSum(delta, f.balance, mode) IN
    IF f.mIsIssuer THEN [ret |-> TRUE, frame |-> f]
    ELSE IF delta = 0 THEN [ret |-> TRUE, frame |-> f]
    ELSE IF ~isAuthorized(f) THEN [ret |-> FALSE, frame |-> f]
    ELSE IF sum < 0 THEN [ret |-> FALSE, frame |-> f]
    ELSE [ret |-> TRUE, frame |-> [f EXCEPT !.balance = Wrap64(f.balance + delta)]]

addBalance_NoZeroShortcut(f, delta, mode) ==
    LET sum == SignedSum(delta, f.balance, mode) IN
    IF f.mIsIssuer THEN [ret |-> TRUE, frame |-> f]
    ELSE IF ~isAuthorized(f) THEN [ret |-> FALSE, frame |-> f]
    ELSE IF f.limit < sum THEN [ret |-> FALSE, frame |-> f]
    ELSE IF sum < 0 THEN [ret |-> FALSE, frame |-> f]
    ELSE [ret |-> TRUE, frame |-> [f EXCEPT !.balance = Wrap64(f.balance + delta)]]

addBalance_IssuerTracked(f, delta, mode) ==
    LET sum == SignedSum(delta, f.balance, mode) IN
    IF delta = 0 THEN [ret |-> TRUE, frame |-> f]
    ELSE IF ~isAuthorized(f) THEN [ret |-> FALSE, frame |-> f]
    ELSE IF f.limit < sum THEN [ret |-> FALSE, frame |-> f]
    ELSE IF sum < 0 THEN [ret |-> FALSE, frame |-> f]
    ELSE [ret |-> TRUE, frame |-> [f EXCEPT !.balance = Wrap64(f.balance + delta)]]

addBalance_LimitExclusive(f, delta, mode) ==
    LET sum == SignedSum(delta, f.balance, mode) IN
    IF f.mIsIssuer THEN [ret |-> TRUE, frame |-> f]
    ELSE IF delta = 0 THEN [ret |-> TRUE, frame |-> f]
    ELSE IF ~isAuthorized(f) THEN [ret |-> FALSE, frame |-> f]
    ELSE IF f.limit <= sum THEN [ret |-> FALSE, frame |-> f]
    ELSE IF sum < 0 THEN [ret |-> FALSE, frame |-> f]
    ELSE [ret |-> TRUE, frame |-> [f EXCEPT !.balance = Wrap64(f.balance + delta)]]

addBalance(f, delta, mode) ==
    LET sum == SignedSum(delta, f.balance, mode) IN
    IF f.mIsIssuer THEN [ret |-> TRUE, frame |-> f]
    ELSE IF delta = 0 THEN [ret |-> TRUE, frame |-> f]
    ELSE IF ~isAuthorized(f) THEN [ret |-> FALSE, frame |-> f]
    ELSE IF f.limit < sum THEN [ret |-> FALSE, frame |-> f]
    ELSE IF sum < 0 THEN [ret |-> FALSE, frame |-> f]
    ELSE [ret |-> TRUE, frame |-> [f EXCEPT !.balance = Wrap64(f.balance + delta)]]

getMaxAmountReceive_IgnoresAuth(f) ==
    IF f.mIsIssuer THEN INT64_MAX ELSE Wrap64(f.limit - f.balance)

getMaxAmountReceive(f) ==
    IF f.mIsIssuer THEN INT64_MAX
    ELSE IF isAuthorized(f) THEN Wrap64(f.limit - f.balance)
    ELSE 0

setAsIssuer(f, issuer) ==
    [f EXCEPT !.mIsIssuer = TRUE,
              !.accountID = issuer.issuer,
              !.flags = OrBit(f.flags, AUTHORIZED_FLAG),
              !.balance = INT64_MAX,
              !.currency = issuer,
              !.limit = INT64_MAX]

---------------------------------------------------------------------------
(* Identity and currency-code codec (crypto/Base58, util/types) *)

toBase58Check(id) == CASE id = "A" -> "gA" [] id = "B" -> "gB"

fromBase58Check256(str) == CHOOSE id \in Accounts : toBase58Check(id) = str

\* a currency code is 4 bytes, padded with zero bytes (written "")
CodeBytes(code) == CASE code = "USD" -> << "U", "S", "D", "" >>

\* the string holds the bytes before the padding
currencyCodeToStr(code) == SelectSeq(CodeBytes(code), LAMBDA c : c # "")

strToCurrencyCode(str) ==
    CHOOSE code \in Codes :
        CodeBytes(code) = str \o [i \in 1..(4 - Len(str)) |-> ""]

getKeyFields_NoIssuerCheck(key) ==
    [err |-> "",
     accountID |-> toBase58Check(key.accountID),
     issuer |-> toBase58Check(key.currency.issuer),
     code |-> currencyCodeToStr(key.currency.code)]

\* TrustFrame::getKeyFields: the three key columns, or the usage error
getKeyFields(key) ==
    LET base58AccountID == toBase58Check(key.accountID)
        base58Issuer == toBase58Check(key.currency.issuer)
    IN  [err |-> IF base58AccountID = base58Issuer THEN "issuer_trustline" ELSE "",
         accountID |-> base58AccountID,
         issuer |-> base58Issuer,
         code |-> currencyCodeToStr(key.currency.code)]

---------------------------------------------------------------------------
(* The SQL table TrustLines (kSQLCreateStatement1) and its statements *)

SameKey(r, q) ==
    /\ r.accountID = q.accountID
    /\ r.issuer = q.issuer
    /\ r.AlphaNumCurrency = q.AlphaNumCurrency

\* rows selected by  WHERE accountID=:v1 and issuer=:v2 and AlphaNumCurrency=:v3
Where(t, kf) ==
    {r \in t : r.accountID = kf.accountID /\ r.issuer = kf.issuer
                 /\ r.AlphaNumCurrency = kf.code}

Constraints_NoPrimaryKey(t, row) ==
    /\ row.tlimit >= 0
    /\ row.balance >= 0

\* PRIMARY KEY (accountID, issuer, AlphaNumCurrency), CHECK (tlimit >= 0),
\* CHECK (balance >= 0): what a row must satisfy to be written
Constraints(t, row) ==
    /\ \A r \in t : ~SameKey(r, row)
    /\ row.tlimit >= 0
    /\ row.balance >= 0

\* INSERT INTO TrustLines (accountID, issuer, AlphaNumCurrency, tlimit, flags):
\* balance takes its DEFAULT 0; a violated constraint makes the statement throw
SqlInsert(t, kf, tlimit, flags) ==
    LET row == [accountID |-> kf.accountID, issuer |-> kf.issuer,
                AlphaNumCurrency |-> kf.code,
                tlimit |-> tlimit, balance |-> 0, flags |-> flags]
    IN  IF Constraints(t, row)
        THEN [err |-> "", table |-> t \cup {row}, rows |-> 1]
        ELSE [err |-> "soci_error", table |-> t, rows |-> 0]

\* UPDATE TrustLines SET balance=:b, tlimit=:tl, flags=:a WHERE ...
SqlUpdate(t, kf, balance, tlimit, flags) ==
    LET hit == Where(t, kf)
        new == {[r EXCEPT !.balance = balance, !.tlimit = tlimit, !.flags = flags]
                  : r \in hit}
    IN  IF balance >= 0 /\ tlimit >= 0
        THEN [err |-> "", table |-> (t \ hit) \cup new, rows |-> Cardinality(hit)]
        ELSE IF hit = {}
             THEN [err |-> "", table |-> t, rows |-> 0]
             ELSE [err |-> "soci_error", table |-> t, rows |-> 0]

\* DELETE from TrustLines WHERE ...
SqlDelete(t, kf) ==
    LET hit == Where(t, kf)
    IN  [err |-> "", table |-> t \ hit, rows |-> Cardinality(hit)]

---------------------------------------------------------------------------
(* The LedgerDelta: per key the kind and entity of the last notification, *)
(* and whether the key is live when the notifications are replayed        *)

NoRecord == [kind |-> "none", live |-> FALSE, limit |-> 0, balance |-> 0, flags |-> 0]

EmptyJournal == [k \in LedgerKeys |-> NoRecord]

addEntry(j, f) ==
    [j EXCEPT ![KeyOf(f)] =
        [kind |-> "added", live |-> TRUE,
         limit |-> f.limit, balance |-> f.balance, flags |-> f.flags]]

modEntry(j, f) ==
    [j EXCEPT ![KeyOf(f)] =
        [kind |-> "modified", live |-> j[KeyOf(f)].live,
         limit |-> f.limit, balance |-> f.balance, flags |-> f.flags]]

deleteEntry(j, key) ==
    [j EXCEPT ![key] = [NoRecord EXCEPT !.kind = "deleted"]]

---------------------------------------------------------------------------
(* TrustFrame: the store.  Each operator gives the outcome of one call:   *)
(* the error thrown ("" when the call returns), the table and the journal *)
(* afterwards, the rows the statement affected and, in order, the storage *)
(* statements executed and the journal calls made.                        *)

Outcome(err, t, j, rows, events) ==
    [err |-> err, table |-> t, journal |-> j, rows |-> rows, events |-> events]

\* TrustFrame::exists
exists(key, t) ==
    LET kf == getKeyFields(key)
    IN  IF kf.err # ""
        THEN [err |-> kf.err, ret |-> FALSE, events |-> << >>]
        ELSE [err |-> "", ret |-> Where(t, kf) # {}, events |-> << "SELECT" >>]

\* TrustFrame::storeDelete(delta, db, key)
storeDelete(key, t, j) ==
    LET kf == getKeyFields(key)
        st == SqlDelete(t, kf)
    IN  IF kf.err # "" THEN Outcome(kf.err, t, j, 0, << >>)
        ELSE Outcome("", st.table, deleteEntry(j, key), st.rows,
                     << "DELETE", "deleteEntry" >>)

storeChange_NoRowCheck(f, t, j) ==
    LET kf == getKeyFields(KeyOf(f))
        st == SqlUpdate(t, kf, f.balance, f.limit, ToInt(f.flags))
    IN  IF ~isValid(f) THEN Outcome("assert", t, j, 0, << >>)
        ELSE IF f.mIsIssuer THEN Outcome("", t, j, 0, << >>)
        ELSE IF kf.err # "" THEN Outcome(kf.err, t, j, 0, << >>)
        ELSE IF st.err # "" THEN Outcome(st.err, t, j, 0, << "UPDATE" >>)
        ELSE Outcome("", st.table, modEntry(j, f), st.rows,
                     << "UPDATE", "modEntry" >>)

storeChange_AssertsCurrencyOnly(f, t, j) ==
    LET kf == getKeyFields(KeyOf(f))
        st == SqlUpdate(t, kf, f.balance, f.limit, ToInt(f.flags))
    IN  IF f.currency.type = NativeCurrency.type THEN Outcome("assert", t, j, 0, << >>)
        ELSE IF f.mIsIssuer THEN Outcome("", t, j, 0, << >>)
        ELSE IF kf.err # "" THEN Outcome(kf.err, t, j, 0, << >>)
        ELSE IF st.err # "" THEN Outcome(st.err, t, j, 0, << "UPDATE" >>)
        ELSE IF st.rows # 1
        THEN Outcome("could_not_update", st.table, j, st.rows, << "UPDATE" >>)
        ELSE Outcome("", st.table, modEntry(j, f), st.rows,
                     << "UPDATE", "modEntry" >>)

\* TrustFrame::storeChange
storeChange(f, t, j) ==
    LET kf == getKeyFields(KeyOf(f))
        st == SqlUpdate(t, kf, f.balance, f.limit, ToInt(f.flags))
    IN  IF ~isValid(f) THEN Outcome("assert", t, j, 0, << >>)
        ELSE IF f.mIsIssuer THEN Outcome("", t, j, 0, << >>)
        ELSE IF kf.err # "" THEN Outcome(kf.err, t, j, 0, << >>)
        ELSE IF st.err # "" THEN Outcome(st.err, t, j, 0, << "UPDATE" >>)
        ELSE IF st.rows # 1
        THEN Outcome("could_not_update", st.table, j, st.rows, << "UPDATE" >>)
        ELSE Outcome("", st.table, modEntry(j, f), st.rows,
                     << "UPDATE", "modEntry" >>)

storeAdd_WritesIssuer(f, t, j) ==
    LET kf == getKeyFields(KeyOf(f))
        st == SqlInsert(t, kf, f.limit, ToInt(f.flags))
    IN  IF ~isValid(f) THEN Outcome("assert", t, j, 0, << >>)
        ELSE IF kf.err # "" THEN Outcome(kf.err, t, j, 0, << >>)
        ELSE IF st.err # "" THEN Outcome(st.err, t, j, 0, << "INSERT" >>)
        ELSE IF st.rows # 1
        THEN Outcome("could_not_update", st.table, j, st.rows, << "INSERT" >>)
        ELSE Outcome("", st.table, addEntry(j, f), st.rows,
                     << "INSERT", "addEntry" >>)

\* TrustFrame::storeAdd
storeAdd(f, t, j) ==
    LET kf == getKeyFields(KeyOf(f))
        st == SqlInsert(t, kf, f.limit, ToInt(f.flags))
    IN  IF ~isValid(f) THEN Outcome("assert", t, j, 0, << >>)
        ELSE IF f.mIsIssuer THEN Outcome("", t, j, 0, << >>)
        ELSE IF kf.err # "" THEN Outcome(kf.err, t, j, 0, << >>)
        ELSE IF st.err # "" THEN Outcome(st.err, t, j, 0, << "INSERT" >>)
        ELSE IF st.rows # 1
        THEN Outcome("could_not_update", st.table, j, st.rows, << "INSERT" >>)
        ELSE Outcome("", st.table, addEntry(j, f), st.rows,
                     << "INSERT", "addEntry" >>)

\* the frame loadLines builds from one fetched row (curTrustLine)
RowFrame(r) ==
    [accountID |-> fromBase58Check256(r.accountID),
     currency |-> AlphaNum(strToCurrencyCode(r.AlphaNumCurrency),
                           fromBase58Check256(r.issuer)),
     limit |-> r.tlimit, balance |-> r.balance, flags |-> ToUInt(r.flags),
     mIsIssuer |-> FALSE]

\* TrustFrame::operator= : every field of the other frame, mIsIssuer included
Assign(other) == other

\* TrustFrame::loadLines(prep, trustProcessor) as loadTrustLine uses it: the
\* possible outcomes of fetching the rows and assigning each to retLine
loadLines(rows, retLine) ==
    IF rows = {}
    THEN {[err |-> "", ret |-> FALSE, frame |-> retLine]}
    ELSE IF \E r \in rows : ~isValid(RowFrame(r))
    THEN {[err |-> "assert", ret |-> FALSE, frame |-> retLine]}
    ELSE {[err |-> "", ret |-> TRUE, frame |-> Assign(RowFrame(r))] : r \in rows}

loadTrustLine_NoIssuerCase(accountID, currency, retLine, t) ==
    LET kf == [accountID |-> toBase58Check(accountID),
               issuer |-> toBase58Check(currency.issuer),
               code |-> currencyCodeToStr(currency.code)]
    IN  {[err |-> o.err, ret |-> o.ret, frame |-> o.frame,
          events |-> << "SELECT" >>] : o \in loadLines(Where(t, kf), retLine)}

\* TrustFrame::loadTrustLine
loadTrustLine(accountID, currency, retLine, t) ==
    IF accountID = currency.issuer
    THEN {[err |-> "", ret |-> TRUE, frame |-> setAsIssuer(retLine, currency),
           events |-> << >>]}
    ELSE LET kf == [accountID |-> toBase58Check(accountID),
                    issuer |-> toBase58Check(currency.issuer),
                    code |-> currencyCodeToStr(currency.code)]
         IN  {[err |-> o.err, ret |-> o.ret, frame |-> o.frame,
               events |-> << "SELECT" >>] : o \in loadLines(Where(t, kf), retLine)}

hasIssued_AnyRow(issuerID, t) ==
    \E r \in t : r.issuer = toBase58Check(issuerID)

\* TrustFrame::hasIssued
hasIssued(issuerID, t) ==
    \E r \in t : r.issuer = toBase58Check(issuerID) /\ r.balance > 0

---------------------------------------------------------------------------
(* The calls a caller makes *)

NoKey == [accountID |-> "", currency |-> NativeCurrency]

Call(op, key, delta, ret, amount, err, rows, events) ==
    [op |-> op, key |-> key, delta |-> delta, ret |-> ret, amount |-> amount,
     err |-> err, rows |-> rows, events |-> events]

\* the entries the entity calls are applied to: every limit, balance and flags
\* word of the integer widths, for a holder's line, the issuer's own line and a
\* native line
EntityEntries == {from \in TrustLineEntries : from.accountID = "A"}

\* the entries callers of the store build frames from: every small line of
\* holder A in B's USD (valid or not), two lines of holder B in A's USD, the
\* line an issuer would hold in its own currency, and a native line
StoreEntries ==
    [accountID : {"A"}, currency : {AlphaNum("USD", "B")},
     limit : {0, 1}, balance : {-1, 0, 1}, flags : {0, 2^FlagBits - 1}]
    \cup
    [accountID : {"B"}, currency : {AlphaNum("USD", "A")},
     limit : {1}, balance : {0, 1}, flags : {AUTHORIZED_FLAG}]
    \cup
    [accountID : {"A"}, currency : {AlphaNum("USD", "A"), NativeCurrency},
     limit : {1}, balance : {0}, flags : {AUTHORIZED_FLAG}]

StoreDeltas == {-1, 1}

Init ==
    /\ frame = DefaultFrame
    /\ table = {}
    /\ journal = EmptyJournal
    /\ last = Call("TrustFrame", NoKey, 0, TRUE, 0, "", 0, << >>)

Construct(from) ==
    /\ frame' = TrustFrame(from)
    /\ last' = Call("TrustFrame", NoKey, 0, TRUE, 0, "", 0, << >>)
    /\ UNCHANGED << table, journal >>

\* the caller goes on with a copy-constructed copy of the frame
CopyConstruct ==
    /\ frame' = TrustFrameCopy(frame)
    /\ last' = Call("TrustFrame(copy)", NoKey, 0, TRUE, 0, "", 0, << >>)
    /\ UNCHANGED << table, journal >>

\* the caller goes on with a frame the frame was assigned to
CopyAssign ==
    /\ frame' = Assign(frame)
    /\ last' = Call("operator=", NoKey, 0, TRUE, 0, "", 0, << >>)
    /\ UNCHANGED << table, journal >>

SetAuthorized(authorized) ==
    /\ frame' = setAuthorized(frame, authorized)
    /\ last' = Call("setAuthorized", NoKey, 0, authorized, 0, "", 0, << >>)
    /\ UNCHANGED << table, journal >>

AddBalance(delta, mode) ==
    LET r == addBalance(frame, delta, mode)
    IN  /\ frame' = r.frame
        /\ last' = Call("addBalance", NoKey, delta, r.ret, 0, "", 0, << >>)
        /\ UNCHANGED << table, journal >>

GetMaxAmountReceive ==
    /\ last' = Call("getMaxAmountReceive", NoKey, 0, TRUE,
                    getMaxAmountReceive(frame), "", 0, << >>)
    /\ UNCHANGED << frame, table, journal >>

LoadTrustLine(accountID, currency) ==
    \E r \in loadTrustLine(accountID, currency, frame, table) :
        /\ frame' = r.frame
        /\ last' = Call("loadTrustLine",
                        [accountID |-> accountID, currency |-> currency],
                        0, r.ret, 0, r.err, 0, r.events)
        /\ UNCHANGED << table, journal >>

Exists(key) ==
    LET r == exists(key, table)
    IN  /\ last' = Call("exists", key, 0, r.ret, 0, r.err, 0, r.events)
        /\ UNCHANGED << frame, table, journal >>

HasIssued(issuerID) ==
    /\ last' = Call("hasIssued", [NoKey EXCEPT !.accountID = issuerID], 0,
                    hasIssued(issuerID, table), 0, "", 0, << "SELECT" >>)
    /\ UNCHANGED << frame, table, journal >>

StoreAdd ==
    LET r == storeAdd(frame, table, journal)
    IN  /\ table' = r.table
        /\ journal' = r.journal
        /\ last' = Call("storeAdd", NoKey, 0, TRUE, 0, r.err, r.rows, r.events)
        /\ UNCHANGED frame

StoreChange ==
    LET r == storeChange(frame, table, journal)
    IN  /\ table' = r.table
        /\ journal' = r.journal
        /\ last' = Call("storeChange", NoKey, 0, TRUE, 0, r.err, r.rows, r.events)
        /\ UNCHANGED frame

StoreDelete(key) ==
    LET r == storeDelete(key, table, journal)
    IN  /\ table' = r.table
        /\ journal' = r.journal
        /\ last' = Call("storeDelete", key, 0, TRUE, 0, r.err, r.rows, r.events)
        /\ UNCHANGED frame

\* the store and the journal, with the balance changes callers make between a
\* load and a write
Next ==
    \/ \E from \in StoreEntries : Construct(from)
    \/ CopyConstruct
    \/ CopyAssign
    \/ \E delta \in StoreDeltas, mode \in OverflowModes : AddBalance(delta, mode)
    \/ \E a \in Accounts, c \in AlphaNumCurrencies : LoadTrustLine(a, c)
    \/ \E key \in LedgerKeys : Exists(key)
    \/ \E a \in Accounts : HasIssued(a)
    \/ StoreAdd
    \/ StoreChange
    \/ \E key \in LedgerKeys : StoreDelete(key)

Spec == Init /\ [][Next]_vars

\* the entity alone, over every entry and every delta of the integer width
NextEntity ==
    \/ CopyConstruct
    \/ CopyAssign
    \/ \E authorized \in BOOLEAN : SetAuthorized(authorized)
    \/ \E delta \in Int64, mode \in OverflowModes : AddBalance(delta, mode)
    \/ GetMaxAmountReceive
    \/ \E a \in Accounts, c \in AlphaNumCurrencies : LoadTrustLine(a, c)

InitEntity ==
    /\ frame \in {TrustFrame(from) : from \in EntityEntries}
    /\ table = {}
    /\ journal = EmptyJournal
    /\ last = Call("TrustFrame", NoKey, 0, TRUE, 0, "", 0, << >>)

SpecEntity == InitEntity /\ [][NextEntity]_vars

---------------------------------------------------------------------------
(* Properties of the entity (checked under SpecEntity) *)

\* invariants I2 and I3 of a trust line
InBounds(f) == 0 <= f.balance /\ f.balance <= f.limit

NonIssuerKey(key) == key.accountID # key.currency.issuer

\* C1: on a non-issuer line with 0 <= balance <= limit, addBalance(delta) for
\* any delta of the integer width, overflowing sums included, leaves
\* 0 <= balance <= limit; a call that returns false leaves the frame as it was.
C1_AddBalanceKeepsBounds ==
    [][(last'.op = "addBalance" /\ ~frame.mIsIssuer /\ InBounds(frame))
        => /\ InBounds(frame')
           /\ (~last'.ret => frame' = frame)]_vars

\* an authorized line refused a delta whose sum with the balance overflows
C1_Witness ==
    /\ last.op = "addBalance"
    /\ ~last.ret
    /\ ~frame.mIsIssuer
    /\ InBounds(frame)
    /\ isAuthorized(frame)
    /\ frame.balance + last.delta > INT64_MAX

\* C2: on a non-issuer line within its bounds, addBalance(delta) returns false
\* exactly when the line is unauthorized and delta # 0, or balance + delta
\* exceeds the limit, or balance + delta is negative; otherwise it returns
\* true and only the balance changes, to balance + delta.
C2_AddBalanceResult ==
    [][(last'.op = "addBalance" /\ ~frame.mIsIssuer /\ InBounds(frame))
        => LET delta == last'.delta
               fails == \/ (~isAuthorized(frame) /\ delta # 0)
                        \/ frame.balance + delta > frame.limit
                        \/ frame.balance + delta < 0
           IN  /\ last'.ret = ~fails
               /\ ~fails =>
                    frame' = [frame EXCEPT !.balance = frame.balance + delta]]_vars

\* a positive delta was accepted and filled the line up to its limit
C2_Witness ==
    /\ last.op = "addBalance"
    /\ last.ret
    /\ last.delta > 0
    /\ ~frame.mIsIssuer
    /\ frame.balance = frame.limit
    /\ frame.balance > last.delta

\* C3: addBalance(0) returns true and changes nothing, on every frame.
C3_AddZeroIsNoOp ==
    [][(last'.op = "addBalance" /\ last'.delta = 0)
        => (last'.ret /\ frame' = frame)]_vars

\* addBalance(0) succeeded on an unauthorized line that is full
C3_Witness ==
    /\ last.op = "addBalance"
    /\ last.delta = 0
    /\ last.ret
    /\ ~frame.mIsIssuer
    /\ ~isAuthorized(frame)
    /\ frame.limit > 0
    /\ frame.balance = frame.limit

\* C4: on the issuer pseudo-entity addBalance(delta) returns true for every
\* delta and leaves balance and limit at INT64_MAX.
C4_IssuerAddBalance ==
    [][(last'.op = "addBalance" /\ frame.mIsIssuer)
        => /\ last'.ret
           /\ frame'.mIsIssuer
           /\ frame'.balance = INT64_MAX
           /\ frame'.limit = INT64_MAX]_vars

\* the issuer pseudo-entity took a negative delta after an earlier addBalance
C4_Witness ==
    /\ last.op = "addBalance"
    /\ last.delta = INT64_MIN
    /\ last.ret
    /\ frame.mIsIssuer
    /\ frame.balance = INT64_MAX

\* C5: getMaxAmountReceive returns INT64_MAX for the issuer pseudo-entity,
\* limit - balance for an authorized non-issuer line and 0 for an unauthorized
\* one, and changes no field of the frame.
C5_MaxAmountReceive ==
    [][last'.op = "getMaxAmountReceive"
        => /\ frame' = frame
           /\ frame.mIsIssuer => last'.amount = INT64_MAX
           /\ (~frame.mIsIssuer /\ isAuthorized(frame)
                 /\ InInt64(frame.limit - frame.balance))
                => last'.amount = frame.limit - frame.balance
           /\ (~frame.mIsIssuer /\ ~isAuthorized(frame))
                => last'.amount = 0]_vars

\* the headroom of an authorized, partly filled line was returned
C5_Witness ==
    /\ last.op = "getMaxAmountReceive"
    /\ ~frame.mIsIssuer
    /\ isAuthorized(frame)
    /\ 0 < frame.balance
    /\ frame.balance < frame.limit
    /\ last.amount = frame.limit - frame.balance

---------------------------------------------------------------------------
(* Properties of the store and the journal (checked under Spec) *)

\* the rows of the table that decode to a ledger key
RowsOf(t, key) == {r \in t : KeyOf(RowFrame(r)) = key}

\* limit, balance and flags agree
SameFields(f, g) ==
    f.limit = g.limit /\ f.balance = g.balance /\ f.flags = g.flags

StoreOps == {"storeAdd", "storeChange", "storeDelete"}

\* the key a store call works on: its argument, or the key of the frame
CallKey(call, f) == IF call.op = "storeDelete" THEN call.key ELSE KeyOf(f)

JournalCalls == {"addEntry", "modEntry", "deleteEntry"}

Notifications(events) == SelectSeq(events, LAMBDA e : e \in JournalCalls)

\* C6: storeAdd of a valid non-issuer frame E that returns, followed by
\* loadTrustLine of E's holder and currency, finds the line and yields a frame
\* equal to E in limit, balance and flags.
C6_AddLoadRoundTrip ==
    [][(/\ last.op = "storeAdd" /\ last.err = ""
        /\ ~frame.mIsIssuer /\ isValid(frame)
        /\ last'.op = "loadTrustLine" /\ last'.key = KeyOf(frame))
        => (last'.ret /\ SameFields(frame', frame))]_vars

\* C7: storeDelete of a non-issuer key that has no row ends in an error, and
\* the journal is not told of a deletion.
C7_DeleteMissingIsError ==
    (/\ last.op = "storeDelete"
     /\ NonIssuerKey(last.key)
     /\ last.rows = 0)
        => (last.err # "" /\ Notifications(last.events) = << >>)

\* C8: storeChange of a valid non-issuer frame E aborts, leaving table and
\* journal alone, when E's key has no row; when the row exists it returns,
\* that row takes E's balance, limit and flags under the same key, and every
\* other row stays as it was.
C8_ChangeExactlyOneRow ==
    [][(last'.op = "storeChange" /\ ~frame.mIsIssuer /\ isValid(frame))
        => LET hit == RowsOf(table, KeyOf(frame))
           IN  IF hit = {}
               THEN /\ last'.err # ""
                    /\ table' = table
                    /\ journal' = journal
                    /\ Notifications(last'.events) = << >>
               ELSE /\ last'.err = ""
                    /\ last'.rows = 1
                    /\ table' \ RowsOf(table', KeyOf(frame)) = table \ hit
                    /\ Cardinality(RowsOf(table', KeyOf(frame))) = 1
                    /\ \A r \in RowsOf(table', KeyOf(frame)) :
                          SameFields(RowFrame(r), frame)]_vars

\* a change rewrote one of two rows with other values
C8_Witness ==
    /\ last.op = "storeChange"
    /\ last.err = ""
    /\ last.rows = 1
    /\ Cardinality(table) = 2
    /\ ~frame.mIsIssuer
    /\ frame.balance > 0
    /\ \E r \in RowsOf(table, KeyOf(frame)) : SameFields(RowFrame(r), frame)

\* a change of a line that has no row was refused
C8_WitnessMissing ==
    /\ last.op = "storeChange"
    /\ last.err = "could_not_update"
    /\ isValid(frame)
    /\ table # {}

\* C9: a storeAdd, storeChange or storeDelete on a non-issuer key that returns
\* tells the journal exactly once, after the storage statement, with the kind
\* of the operation and the key of the one row it affected; a call that
\* throws tells the journal nothing.
C9_NotifiesOnceAfterWrite ==
    [][(last'.op \in StoreOps /\ ~frame.mIsIssuer
            /\ NonIssuerKey(CallKey(last', frame)))
        => LET key == CallKey(last', frame)
               stmt == CASE last'.op = "storeAdd" -> "INSERT"
                         [] last'.op = "storeChange" -> "UPDATE"
                         [] last'.op = "storeDelete" -> "DELETE"
               note == CASE last'.op = "storeAdd" -> "addEntry"
                         [] last'.op = "storeChange" -> "modEntry"
                         [] last'.op = "storeDelete" -> "deleteEntry"
               kind == CASE last'.op = "storeAdd" -> "added"
                         [] last'.op = "storeChange" -> "modified"
                         [] last'.op = "storeDelete" -> "deleted"
           IN  IF last'.err = ""
               THEN /\ last'.events = << stmt, note >>
                    /\ last'.rows = 1
                    /\ RowsOf(table, key) \cup RowsOf(table', key) # {}
                    /\ journal'[key].kind = kind
                    /\ \A k \in LedgerKeys \ {key} : journal'[k] = journal[k]
               ELSE /\ Notifications(last'.events) = << >>
                    /\ journal' = journal]_vars

\* C10: started from an empty table and an empty journal, after any sequence
\* of store calls the keys live in the replayed journal are the keys with a
\* row, and the entity the journal holds last for such a key has the row's
\* limit, balance and flags.
C10_JournalAgreesWithTable ==
    \A key \in LedgerKeys :
        /\ journal[key].live <=> RowsOf(table, key) # {}
        /\ \A r \in RowsOf(table, key) : SameFields(RowFrame(r), journal[key])

---------------------------------------------------------------------------
(* The issuer pseudo-entity and the store (checked under Spec) *)

\* C11: storeAdd and storeChange on an issuer pseudo-entity return without
\* error, write no row, modify no row and do not call the journal.
C11_IssuerWritesAreNoOps ==
    [][(last'.op \in {"storeAdd", "storeChange"} /\ frame.mIsIssuer)
        => /\ last'.err = ""
           /\ last'.events = << >>
           /\ table' = table
           /\ journal' = journal]_vars

\* an issuer pseudo-entity was added while the table held rows
C11_Witness ==
    /\ last.op = "storeAdd"
    /\ last.err = ""
    /\ frame.mIsIssuer
    /\ Cardinality(table) = 2

\* C12: loadTrustLine with the holder equal to the currency's issuer reports
\* found, reads no storage, and leaves in retLine an authorized frame with
\* balance = limit = INT64_MAX, whatever the table and retLine held before.
C12_LoadIssuer ==
    [][(last'.op = "loadTrustLine" /\ ~NonIssuerKey(last'.key))
        => /\ last'.ret
           /\ last'.err = ""
           /\ last'.events = << >>
           /\ isAuthorized(frame')
           /\ frame'.balance = INT64_MAX
           /\ frame'.limit = INT64_MAX]_vars

\* the issuer's line was loaded, found, while the table held rows
C12_Witness ==
    /\ last.op = "loadTrustLine"
    /\ ~NonIssuerKey(last.key)
    /\ last.ret
    /\ frame.mIsIssuer
    /\ frame.accountID = "B"
    /\ table # {}

\* C13: exists(key) and storeDelete(key) with the key's holder equal to its
\* issuer end in the usage error before any storage statement: no result,
\* table and journal unchanged.
C13_IssuerKeyIsUsageError ==
    [][(last'.op \in {"exists", "storeDelete"} /\ ~NonIssuerKey(last'.key))
        => /\ last'.err = "issuer_trustline"
           /\ last'.events = << >>
           /\ table' = table
           /\ journal' = journal]_vars

\* a delete by the issuer's own key was refused while the table held rows
C13_Witness ==
    /\ last.op = "storeDelete"
    /\ ~NonIssuerKey(last.key)
    /\ last.err = "issuer_trustline"
    /\ table # {}

\* C14: an issuer pseudo-entity is authorized in every state reached from its
\* construction by addBalance, setAuthorized and getMaxAmountReceive.
C14_IssuerAlwaysAuthorized == frame.mIsIssuer => isAuthorized(frame)

\* C15: no row of the table has its holder equal to its issuer, whatever
\* loads, adds, changes and deletes were made, on issuer pseudo-entities and
\* on copies of them too.
C15_NoIssuerRow ==
    \A r \in table :
        /\ r.accountID # r.issuer
        /\ NonIssuerKey(KeyOf(RowFrame(r)))

\* storeAdd of a copy-constructed copy of an issuer pseudo-entity was refused
C15_Witness ==
    /\ last.op = "storeAdd"
    /\ last.err = "issuer_trustline"
    /\ ~frame.mIsIssuer
    /\ frame.limit = INT64_MAX
    /\ frame.balance = INT64_MAX
    /\ table # {}

\* C16: storeAdd and storeChange of a frame that fails isValid (native
\* currency, balance < 0 or balance > limit) end in an error before any
\* statement runs, with the table and the journal as they were; and every row
\* of the table has 0 <= balance <= tlimit.
C16_InvalidNeverWritten ==
    [][/\ (last'.op \in {"storeAdd", "storeChange"} /\ ~isValid(frame))
            => /\ last'.err # ""
               /\ last'.events = << >>
               /\ table' = table
               /\ journal' = journal
       /\ \A r \in table' : 0 <= r.balance /\ r.balance <= r.tlimit]_vars

\* storeChange of a frame with balance > limit was refused while its row exists
C16_Witness ==
    /\ last.op = "storeChange"
    /\ last.err = "assert"
    /\ frame.balance > frame.limit
    /\ frame.balance >= 0
    /\ RowsOf(table, KeyOf(frame)) # {}

\* C17: hasIssued(issuer) returns true exactly when the table holds a row of
\* that issuer with balance > 0, and leaves the table and the journal as they
\* were.
C17_HasIssuedIffPositiveRow ==
    [][last'.op = "hasIssued"
        => /\ last'.ret <=>
                 \E r \in table :
                     /\ RowFrame(r).currency.issuer = last'.key.accountID
                     /\ r.balance > 0
           /\ table' = table
           /\ journal' = journal]_vars

\* hasIssued answered true while the table also holds a row without balance
C17_Witness ==
    /\ last.op = "hasIssued"
    /\ last.ret
    /\ \E r \in table : r.balance = 0
    /\ \E r \in table :
           RowFrame(r).currency.issuer = last.key.accountID /\ r.balance > 0

\* C18: the table holds at most one row per (accountID, issuer,
\* AlphaNumCurrency); storeAdd of a frame whose key already has a row ends in
\* an error, leaves the table (the row's tlimit, balance and flags) as it was
\* and does not notify the journal.
C18_KeyUnique ==
    [][/\ \A r, q \in table' : SameKey(r, q) => r = q
       /\ (last'.op = "storeAdd" /\ RowsOf(table, KeyOf(frame)) # {})
            => /\ last'.err # ""
               /\ table' = table
               /\ journal' = journal
               /\ Notifications(last'.events) = << >>]_vars

\* the INSERT of a valid frame was refused because its key has a row, whose
\* balance differs from the default an INSERT would give
C18_Witness ==
    /\ last.op = "storeAdd"
    /\ last.err = "soci_error"
    /\ isValid(frame)
    /\ \E r \in RowsOf(table, KeyOf(frame)) : r.balance > 0

\* C19: the copy of an issuer pseudo-entity, made by the copy constructor or
\* by copy assignment, is an issuer pseudo-entity: addBalance on it returns
\* true for every delta, getMaxAmountReceive gives INT64_MAX, and storeAdd and
\* storeChange of it return without a statement or a notification.
C19_CopyKeepsIssuer ==
    [][(last'.op \in {"TrustFrame(copy)", "operator="} /\ frame.mIsIssuer)
        => /\ \A delta \in Int64 : \A mode \in OverflowModes :
                  addBalance(frame', delta, mode).ret
           /\ getMaxAmountReceive(frame') = INT64_MAX
           /\ storeAdd(frame', table', journal')
                  = Outcome("", table', journal', 0, << >>)
           /\ storeChange(frame', table', journal')
                  = Outcome("", table', journal', 0, << >>)]_vars

\* C20: on a valid line, issuer or not, authorized or not,
\* addBalance(getMaxAmountReceive()) returns true; on a valid non-issuer line
\* addBalance(delta) with delta > getMaxAmountReceive() returns false and
\* leaves the frame as it was.
C20_MaxReceiveIsExact ==
    [][(last'.op = "addBalance" /\ isValid(frame))
        => /\ (last'.delta = getMaxAmountReceive(frame)) => last'.ret
           /\ (~frame.mIsIssuer /\ last'.delta > getMaxAmountReceive(frame))
                => (~last'.ret /\ frame' = frame)]_vars

\* addBalance of a positive delta filled an authorized line up to its limit
C20_Witness ==
    /\ last.op = "addBalance"
    /\ last.ret
    /\ last.delta > 0
    /\ ~frame.mIsIssuer
    /\ isAuthorized(frame)
    /\ isValid(frame)
    /\ frame.balance = frame.limit

===========================================================================
